---- MODULE Spec2Model ----
(***************************************************************************)
(* Session store (contexts/AuthContext.jsx) and request gateway            *)
(* (services/api.ts) of the job-application tracker.                        *)
(*                                                                         *)
(* JavaScript strings are TLA+ strings; template literals and              *)
(* JSON.stringify are string concatenations, JSON.parse is the inverse of  *)
(* JSON.stringify over the JSON values of the model and throws on every    *)
(* other string.  localStorage and axios' default headers are functions    *)
(* from the keys that are set to their string values.                      *)
(***************************************************************************)
EXTENDS Integers, Sequences, FiniteSets, TLC

VARIABLES
    MOCK_USERS,     \* AuthContext.jsx: module-level user table
    localStorage,   \* browser storage: key -> string, for the keys that are set
    defaults,       \* api.defaults.headers.common: header name -> string
    user,           \* AuthProvider state: current user (Null when none)
    loading,        \* AuthProvider state: loading flag
    phase,          \* "boot" until the start-up effect has run, then "ready"
    now,            \* Date.now()
    inflight,       \* requests sent and not yet answered
    navigateTo,     \* the URL assigned to window.location.href whose page is
                    \* not loaded yet ("" when no navigation is under way)
    last,           \* the operation that ran last and how it settled
    peer,           \* the in-memory state of a second tab on the same storage
    view            \* the state of the view component that is mounted

vars == <<MOCK_USERS, localStorage, defaults, user, loading, phase, now,
          inflight, navigateTo, last, peer, view>>

----------------------------------------------------------------------------
(* Bounds *)

MaxClock == 2       \* Date.now() takes the values 1..MaxClock
MaxInflight == 1    \* requests in flight at the same time

----------------------------------------------------------------------------
(* JavaScript values *)

Null == [type |-> "null"]

\* no view is mounted
NoView == [component |-> "none"]

\* AuthContext.jsx 16-38
SeedUsers ==
    << [id |-> "1", email |-> "demo@jobtracker.com", password |-> "password123",
        name |-> "Demo User", isVerified |-> TRUE],
       [id |-> "2", email |-> "john@example.com", password |-> "password123",
        name |-> "John Smith", isVerified |-> TRUE],
       [id |-> "3", email |-> "test@test.com", password |-> "test123",
        name |-> "Test User", isVerified |-> TRUE] >>

\* the values the forms hand to login and register
NovelEmails == {"new@x.com"}
Emails == {SeedUsers[1].email, SeedUsers[2].email} \cup NovelEmails
Passwords == {"password123", "s3cret"}
NewPasswords == {"s3cret"}
Names == {"New User"}

\* Array.prototype.find: the first element whose index is in hits, or Null
First(arr, hits) ==
    IF hits = {} THEN Null
    ELSE arr[CHOOSE i \in hits : \A j \in hits : i <= j]

\* JavaScript truthiness of localStorage.getItem(key): set and not ""
HasItem(ls, key) == key \in DOMAIN ls
Truthy(ls, key) == HasItem(ls, key) /\ ls[key] # ""

\* localStorage.setItem / removeItem
SetItem(ls, key, value) ==
    [k \in DOMAIN ls \cup {key} |-> IF k = key THEN value ELSE ls[k]]
RemoveItem(ls, key) == [k \in DOMAIN ls \ {key} |-> ls[k]]

NoItems == [k \in {} |-> ""]

----------------------------------------------------------------------------
(* JSON *)

PublicFieldsWithPassword(u) == u

\* the public fields login keeps of a table record (AuthContext.jsx 79-84)
PublicFields(u) ==
    [id |-> u.id, email |-> u.email, name |-> u.name, isVerified |-> u.isVerified]

BoolText(b) == IF b THEN "true" ELSE "false"

\* JSON.stringify of Null or of a user object: every property the object has
\* is written, in the order of the object literal
JSONstringify(v) ==
    IF v = Null THEN "null"
    ELSE "{\"id\":\"" \o v.id \o "\",\"email\":\"" \o v.email
         \o (IF "password" \in DOMAIN v
             THEN "\",\"password\":\"" \o v.password ELSE "")
         \o "\",\"name\":\"" \o v.name
         \o "\",\"isVerified\":" \o BoolText(v.isVerified) \o "}"

\* the JSON values whose text can be in storage
UserIds == {ToString(i) : i \in 1..(Len(SeedUsers) + Cardinality(NovelEmails))}
UserNames == {SeedUsers[i].name : i \in 1..Len(SeedUsers)} \cup Names
JSONValues ==
    {Null} \cup [id : UserIds, email : Emails, name : UserNames, isVerified : {TRUE}]

\* JSON.parse: the value the text denotes; it throws when there is none
JSONparses(text) == \E v \in JSONValues : JSONstringify(v) = text
JSONparse(text) == CHOOSE v \in JSONValues : JSONstringify(v) = text

\* `mock-jwt-token-${Date.now()}` (AuthContext.jsx 78)
MakeToken(t) == "mock-jwt-token-" \o ToString(t)

\* `Bearer ${token}` (AuthContext.jsx 53, 91; api.ts 94)
BearerWithoutScheme(token) == token

Bearer(token) == "Bearer " \o token

\* what the browser can hold in storage when the application starts
StoredTokens == {"", MakeToken(0)}
StoredUsers == {"", "null", "{bad json", JSONstringify(PublicFields(SeedUsers[1]))}
InitialStorage ==
    {ls \in UNION {[keys -> StoredTokens \cup StoredUsers] : keys \in SUBSET {"token", "user"}} :
        /\ ("token" \in DOMAIN ls => ls["token"] \in StoredTokens)
        /\ ("user" \in DOMAIN ls => ls["user"] \in StoredUsers)}

----------------------------------------------------------------------------
(* Session store: contexts/AuthContext.jsx *)

FindCredentialsEmailOnly(table, email, password) ==
    First(table, {i \in 1..Len(table) : table[i].email = email})

\* MOCK_USERS.find(u => u.email === email && u.password === password)
FindCredentials(table, email, password) ==
    First(table, {i \in 1..Len(table) :
                    table[i].email = email /\ table[i].password = password})

FindEmailLastOnly(table, email) ==
    First(table, {i \in {Len(table)} : table[i].email = email})

\* MOCK_USERS.find(u => u.email === email)
FindEmail(table, email) ==
    First(table, {i \in 1..Len(table) : table[i].email = email})

NewUserUnverified(table, name, email, password) ==
    [id |-> ToString(Len(table) + 1), email |-> email, password |-> password,
     name |-> name, isVerified |-> FALSE]

NewUserCountsFromZero(table, name, email, password) ==
    [id |-> ToString(Len(table)), email |-> email, password |-> password,
     name |-> name, isVerified |-> TRUE]

\* the record register appends
NewUser(table, name, email, password) ==
    [id |-> ToString(Len(table) + 1), email |-> email, password |-> password,
     name |-> name, isVerified |-> TRUE]

StoreTokenOnly(ls, token, userData) == SetItem(ls, "token", token)

\* localStorage after login has stored the session
StoreSession(ls, token, userData) ==
    SetItem(SetItem(ls, "token", token), "user", JSONstringify(userData))

ClearTokenOnly(ls) == RemoveItem(ls, "token")

\* localStorage after both session keys are removed
ClearUserOnly(ls) == RemoveItem(ls, "user")

ClearSession(ls) == RemoveItem(RemoveItem(ls, "token"), "user")

RestoreWithoutCleanup ==
    /\ phase = "boot"
    /\ IF Truthy(localStorage, "token") /\ Truthy(localStorage, "user")
          /\ JSONparses(localStorage["user"])
       THEN /\ user' = JSONparse(localStorage["user"])
            /\ defaults' = SetItem(defaults, "Authorization",
                                   Bearer(localStorage["token"]))
       ELSE UNCHANGED <<user, defaults>>
    /\ loading' = FALSE
    /\ phase' = "ready"
    /\ last' = [op |-> "restore", outcome |-> "returned", stored |-> localStorage]
    /\ UNCHANGED <<MOCK_USERS, localStorage, now, inflight, navigateTo>>
    /\ UNCHANGED <<peer, view>>

RestoreNotNull ==
    /\ phase = "boot"
    /\ IF HasItem(localStorage, "token") /\ HasItem(localStorage, "user")
       THEN IF JSONparses(localStorage["user"])
            THEN /\ user' = JSONparse(localStorage["user"])
                 /\ defaults' = SetItem(defaults, "Authorization",
                                        Bearer(localStorage["token"]))
                 /\ UNCHANGED localStorage
            ELSE /\ localStorage' = RemoveItem(RemoveItem(localStorage, "token"), "user")
                 /\ UNCHANGED <<user, defaults>>
       ELSE UNCHANGED <<localStorage, user, defaults>>
    /\ loading' = FALSE
    /\ phase' = "ready"
    /\ last' = [op |-> "restore", outcome |-> "returned", stored |-> localStorage]
    /\ UNCHANGED <<MOCK_USERS, now, inflight, navigateTo>>
    /\ UNCHANGED <<peer, view>>

\* The start-up effect of AuthProvider
Restore ==
    /\ phase = "boot"
    /\ IF Truthy(localStorage, "token") /\ Truthy(localStorage, "user")
       THEN IF JSONparses(localStorage["user"])
            THEN /\ user' = JSONparse(localStorage["user"])
                 /\ defaults' = SetItem(defaults, "Authorization",
                                        Bearer(localStorage["token"]))
                 /\ UNCHANGED localStorage
            ELSE /\ localStorage' = ClearSession(localStorage)
                 /\ UNCHANGED <<user, defaults>>
       ELSE UNCHANGED <<localStorage, user, defaults>>
    /\ loading' = FALSE
    /\ phase' = "ready"
    /\ last' = [op |-> "restore", outcome |-> "returned", stored |-> localStorage]
    /\ UNCHANGED <<MOCK_USERS, now, inflight, navigateTo>>
    /\ UNCHANGED <<peer, view>>

login(email, password) ==
    /\ phase = "ready"
    /\ LET mockUser == FindCredentials(MOCK_USERS, email, password) IN
       IF mockUser = Null
       THEN /\ last' = [op |-> "login", outcome |-> "rejected", email |-> email,
                        password |-> password,
                        error |-> "Invalid email or password"]
            /\ UNCHANGED <<localStorage, defaults, user>>
       ELSE LET token == MakeToken(now)
                userData == PublicFields(mockUser) IN
            /\ localStorage' = StoreSession(localStorage, token, userData)
            /\ defaults' = SetItem(defaults, "Authorization", Bearer(token))
            /\ user' = userData
            /\ last' = [op |-> "login", outcome |-> "resolved", email |-> email,
                        password |-> password, error |-> ""]
    /\ UNCHANGED <<MOCK_USERS, loading, phase, now, inflight, navigateTo>>
    /\ UNCHANGED <<peer, view>>

registerSignsIn(name, email, password) ==
    /\ phase = "ready"
    /\ LET existingUser == FindEmail(MOCK_USERS, email) IN
       IF existingUser # Null
       THEN /\ last' = [op |-> "register", outcome |-> "rejected", email |-> email,
                        password |-> password, name |-> name,
                        error |-> "User with this email already exists"]
            /\ UNCHANGED <<MOCK_USERS, user>>
       ELSE /\ MOCK_USERS' = Append(MOCK_USERS,
                                    NewUser(MOCK_USERS, name, email, password))
            /\ user' = PublicFields(NewUser(MOCK_USERS, name, email, password))
            /\ last' = [op |-> "register", outcome |-> "resolved", email |-> email,
                        password |-> password, name |-> name, error |-> ""]
    /\ UNCHANGED <<localStorage, defaults, loading, phase, now, inflight,
                   navigateTo>>
    /\ UNCHANGED <<peer, view>>

register(name, email, password) ==
    /\ phase = "ready"
    /\ LET existingUser == FindEmail(MOCK_USERS, email) IN
       IF existingUser # Null
       THEN /\ last' = [op |-> "register", outcome |-> "rejected", email |-> email,
                        password |-> password, name |-> name,
                        error |-> "User with this email already exists"]
            /\ UNCHANGED MOCK_USERS
       ELSE /\ MOCK_USERS' = Append(MOCK_USERS,
                                    NewUser(MOCK_USERS, name, email, password))
            /\ last' = [op |-> "register", outcome |-> "resolved", email |-> email,
                        password |-> password, name |-> name, error |-> ""]
    /\ UNCHANGED <<localStorage, defaults, user, loading, phase, now, inflight,
                   navigateTo>>
    /\ UNCHANGED <<peer, view>>

logoutKeepsHeader ==
    /\ phase = "ready"
    /\ localStorage' = ClearSession(localStorage)
    /\ user' = Null
    /\ last' = [op |-> "logout", outcome |-> "returned", stored |-> localStorage]
    /\ UNCHANGED <<MOCK_USERS, defaults, loading, phase, now, inflight, navigateTo>>
    /\ UNCHANGED <<peer, view>>

logoutSignsOutEveryTab ==
    /\ localStorage' = ClearSession(localStorage)
    /\ defaults' = NoItems
    /\ user' = Null
    /\ last' = [op |-> "logout", outcome |-> "returned", stored |-> localStorage]
    /\ peer' = [peer EXCEPT !.user = Null, !.defaults = NoItems]
    /\ UNCHANGED <<MOCK_USERS, loading, phase, now, inflight, navigateTo, view>>

logout ==
    /\ phase = "ready"
    /\ localStorage' = ClearSession(localStorage)
    /\ defaults' = RemoveItem(defaults, "Authorization")
    /\ user' = Null
    /\ last' = [op |-> "logout", outcome |-> "returned", stored |-> localStorage]
    /\ UNCHANGED <<MOCK_USERS, loading, phase, now, inflight, navigateTo>>
    /\ UNCHANGED <<peer, view>>

\* Date.now() advances
Tick ==
    /\ now < MaxClock
    /\ now' = now + 1
    /\ last' = [op |-> "tick", outcome |-> "ticked"]
    /\ UNCHANGED <<MOCK_USERS, localStorage, defaults, user, loading, phase,
                   inflight, navigateTo>>
    /\ UNCHANGED <<peer, view>>

----------------------------------------------------------------------------
(* Request gateway: services/api.ts *)

\* api.ts 11-88
MOCK_DATA ==
    [applications |->
        << [id |-> "1", company |-> "Google",
            position |-> "Senior Frontend Developer", status |-> "interview",
            appliedDate |-> "2024-01-15", salary |-> 150000,
            location |-> "Mountain View, CA",
            notes |-> "Great company culture, exciting projects"],
           [id |-> "2", company |-> "Microsoft",
            position |-> "Full Stack Engineer", status |-> "applied",
            appliedDate |-> "2024-01-10", salary |-> 140000,
            location |-> "Seattle, WA", notes |-> "Applied through LinkedIn"],
           [id |-> "3", company |-> "Apple", position |-> "iOS Developer",
            status |-> "offer", appliedDate |-> "2024-01-05", salary |-> 160000,
            location |-> "Cupertino, CA",
            notes |-> "Received offer, considering options"] >>,
     resumes |->
        << [id |-> "1", name |-> "Senior Developer Resume",
            filename |-> "resume-senior-dev.pdf", fileSize |-> 245760,
            uploadDate |-> "2024-01-01", isDefault |-> TRUE,
            tags |-> <<"senior", "frontend", "react">>, usageCount |-> 5],
           [id |-> "2", name |-> "Full Stack Resume",
            filename |-> "resume-fullstack.pdf", fileSize |-> 198432,
            uploadDate |-> "2024-01-02", isDefault |-> FALSE,
            tags |-> <<"fullstack", "javascript", "node">>, usageCount |-> 3] >>,
     reminders |->
        << [id |-> "1", title |-> "Google Interview",
            description |-> "Technical interview with the frontend team",
            date |-> "2024-01-25", time |-> "14:00", type |-> "interview",
            isCompleted |-> FALSE, notificationSent |-> FALSE],
           [id |-> "2", title |-> "Follow up with Microsoft",
            description |-> "Send follow-up email about application status",
            date |-> "2024-01-20", time |-> "10:00", type |-> "follow-up",
            isCompleted |-> FALSE, notificationSent |-> FALSE] >>]

\* String.prototype.includes
Includes(text, part) ==
    \E i \in 1..(Len(text) - Len(part) + 1) :
        SubSeq(text, i, i + Len(part) - 1) = part

\* String.prototype.toLowerCase on a method name
ToLowerCase(method) ==
    CASE method = "GET" -> "get"
      [] method = "POST" -> "post"
      [] method = "PUT" -> "put"
      [] method = "DELETE" -> "delete"
      [] OTHER -> method

\* Array.prototype.slice(0, n)
Slice0(arr, n) == SubSeq(arr, 1, IF Len(arr) < n THEN Len(arr) ELSE n)

CountStatusOthers(apps, status) ==
    Cardinality({i \in 1..Len(apps) : apps[i].status # status})

\* applications.filter(a => a.status === status).length
CountStatus(apps, status) ==
    Cardinality({i \in 1..Len(apps) : apps[i].status = status})

\* api.ts 119-129
DashboardStats ==
    [totalApplications |-> Len(MOCK_DATA.applications),
     appliedCount |-> CountStatus(MOCK_DATA.applications, "applied"),
     interviewCount |-> CountStatus(MOCK_DATA.applications, "interview"),
     offerCount |-> CountStatus(MOCK_DATA.applications, "offer"),
     rejectedCount |-> CountStatus(MOCK_DATA.applications, "rejected"),
     recentApplications |-> Slice0(MOCK_DATA.applications, 5),
     upcomingReminders |-> Slice0(MOCK_DATA.reminders, 3)]

\* api.ts 132-151
AnalyticsData ==
    [statusDistribution |->
        [labels |-> <<"Applied", "Interview", "Offer", "Rejected">>,
         data |-> <<1, 1, 1, 0>>],
     monthlyApplications |->
        [labels |-> <<"Dec 2023", "Jan 2024">>, data |-> <<2, 3>>],
     topCompanies |->
        [labels |-> <<"Google", "Microsoft", "Apple">>, data |-> <<1, 1, 1>>],
     responseRate |-> 67,
     averageResponseTime |-> 7,
     totalApplications |-> 3,
     successRate |-> 33]

\* the mock routes in the order the interceptor tries them (api.ts 109-152)
MockRoutes ==
    << "/applications", "/resumes", "/reminders", "/dashboard/stats", "/analytics" >>

MockPayloadSwapped(route) ==
    CASE route = "/applications" -> MOCK_DATA.applications
      [] route = "/resumes" -> MOCK_DATA.reminders
      [] route = "/reminders" -> MOCK_DATA.resumes
      [] route = "/dashboard/stats" -> DashboardStats
      [] route = "/analytics" -> AnalyticsData

MockPayload(route) ==
    CASE route = "/applications" -> MOCK_DATA.applications
      [] route = "/resumes" -> MOCK_DATA.resumes
      [] route = "/reminders" -> MOCK_DATA.reminders
      [] route = "/dashboard/stats" -> DashboardStats
      [] route = "/analytics" -> AnalyticsData

MockRouteAnyMethod(url, method) ==
    LET hits == {i \in 1..Len(MockRoutes) : Includes(url, MockRoutes[i])}
    IN IF hits = {} THEN 0 ELSE CHOOSE i \in hits : \A j \in hits : i <= j

MockRouteLastHit(url, method) ==
    LET hits == {i \in 1..Len(MockRoutes) :
                    Includes(url, MockRoutes[i]) /\ ToLowerCase(method) = "get"}
    IN IF hits = {} THEN 0 ELSE CHOOSE i \in hits : \A j \in hits : i >= j

\* the index of the first mock route that answers the failed request, 0 if none
MockRoute(url, method) ==
    LET hits == {i \in 1..Len(MockRoutes) :
                    Includes(url, MockRoutes[i]) /\ ToLowerCase(method) = "get"}
    IN IF hits = {} THEN 0 ELSE CHOOSE i \in hits : \A j \in hits : i <= j

\* error.code === 'ERR_NETWORK' || error.code === 'ECONNREFUSED'
IsNetworkError(error) == error.code = "ERR_NETWORK" \/ error.code = "ECONNREFUSED"

IsUnauthorizedAnyStatus(error) == error.status # 0

IsUnauthorizedNever(error) == FALSE

\* error.response?.status === 401
IsUnauthorized(error) == error.status = 401

\* requests the views issue (pages and modals)
ViewRequests ==
    { [url |-> "/applications", method |-> "get"],
      [url |-> "/applications?fields=id,company,position", method |-> "get"],
      [url |-> "/applications", method |-> "post"],
      [url |-> "/resumes", method |-> "get"],
      [url |-> "/resumes/1/download", method |-> "get"],
      [url |-> "/reminders", method |-> "get"],
      [url |-> "/dashboard/stats", method |-> "get"],
      [url |-> "/analytics", method |-> "get"],
      [url |-> "/auth/profile", method |-> "put"] }

\* how a request can fail; status 0 stands for an error without a response
NoError == [code |-> "", status |-> 0]
Errors ==
    { [code |-> "ERR_NETWORK", status |-> 0],
      [code |-> "ECONNREFUSED", status |-> 0],
      [code |-> "ERR_BAD_REQUEST", status |-> 401],
      [code |-> "ERR_BAD_RESPONSE", status |-> 500] }

\* what a reachable backend answers on success
BackendResponse == [data |-> "backend", status |-> 200]

\* Request interceptor (api.ts 91-97): config.headers starts from the default
\* headers; the token in storage, if any, overrides Authorization
RequestHeaders(ls, dflt) ==
    IF Truthy(ls, "token")
    THEN SetItem(dflt, "Authorization", Bearer(ls["token"]))
    ELSE dflt

Send(url, method) ==
    /\ phase = "ready"
    /\ Cardinality(inflight) < MaxInflight
    /\ LET req == [url |-> url, method |-> method,
                   headers |-> RequestHeaders(localStorage, defaults)] IN
       /\ req \notin inflight
       /\ inflight' = inflight \cup {req}
       /\ last' = [op |-> "send", outcome |-> "sent", request |-> req]
    /\ UNCHANGED <<MOCK_USERS, localStorage, defaults, user, loading, phase, now,
                   navigateTo>>
    /\ UNCHANGED <<peer, view>>

\* Response interceptor, success handler (api.ts 101)
RespondOk(req) ==
    /\ req \in inflight
    /\ inflight' = inflight \ {req}
    /\ last' = [op |-> "response", outcome |-> "resolved", request |-> req,
                error |-> NoError, response |-> BackendResponse]
    /\ UNCHANGED <<MOCK_USERS, localStorage, defaults, user, loading, phase, now,
                   navigateTo>>
    /\ UNCHANGED <<peer, view>>

\* Response interceptor, error handler (api.ts 102-161)
RespondError(req, error) ==
    /\ req \in inflight
    /\ inflight' = inflight \ {req}
    /\ IF IsNetworkError(error) /\ MockRoute(req.url, req.method) # 0
       THEN /\ last' = [op |-> "response", outcome |-> "resolved",
                        request |-> req, error |-> error,
                        response |->
                          [data |-> MockPayload(MockRoutes[MockRoute(req.url, req.method)])]]
            /\ UNCHANGED <<localStorage, navigateTo>>
       ELSE /\ IF IsUnauthorized(error)
               THEN /\ localStorage' = ClearSession(localStorage)
                    /\ navigateTo' = "/login"
               ELSE UNCHANGED <<localStorage, navigateTo>>
            /\ last' = [op |-> "response", outcome |-> "rejected",
                        request |-> req, error |-> error, response |-> Null]
    /\ UNCHANGED <<MOCK_USERS, defaults, user, loading, phase, now>>
    /\ UNCHANGED <<peer, view>>

\* The browser loads the page: after an assignment to window.location.href, or
\* because the user reloads.  Module state and component state start afresh;
\* localStorage survives.
PageLoad ==
    /\ MOCK_USERS' = SeedUsers
    /\ defaults' = NoItems
    /\ user' = Null
    /\ loading' = TRUE
    /\ phase' = "boot"
    /\ inflight' = {}
    /\ navigateTo' = ""
    /\ last' = [op |-> "pageload", outcome |-> "loaded"]
    /\ UNCHANGED <<localStorage, now>>
    /\ UNCHANGED <<peer, view>>

----------------------------------------------------------------------------

\* the in-memory state of a tab whose page has just been loaded
TabAtBoot ==
    [MOCK_USERS |-> SeedUsers, defaults |-> NoItems, user |-> Null,
     loading |-> TRUE, phase |-> "boot", inflight |-> {}, navigateTo |-> ""]

Init ==
    /\ peer = TabAtBoot
    /\ view = NoView
    /\ MOCK_USERS = SeedUsers
    /\ localStorage \in InitialStorage
    /\ defaults = NoItems
    /\ user = Null
    /\ loading = TRUE
    /\ phase = "boot"
    /\ now = 1
    /\ inflight = {}
    /\ navigateTo = ""
    /\ last = [op |-> "pageload", outcome |-> "loaded"]

Next ==
    \/ Restore
    \/ \E email \in Emails, password \in Passwords : login(email, password)
    \/ \E name \in Names, email \in Emails, password \in NewPasswords :
          register(name, email, password)
    \/ logout
    \/ Tick
    \/ \E r \in ViewRequests : Send(r.url, r.method)
    \/ \E req \in inflight : RespondOk(req)
    \/ \E req \in inflight, error \in Errors : RespondError(req, error)
    \/ PageLoad

Spec == Init /\ [][Next]_vars

\* The application starts in a browser whose storage is empty
InitFresh == Init /\ localStorage = NoItems

SpecFresh == InitFresh /\ [][Next]_vars

\* The gateway on its own: a session is open and requests to any route, with
\* any method, are sent and answered
GatewayUrls ==
    {r.url : r \in ViewRequests} \cup
    { "/applications/1", "/applications/1/reminders", "/resumes/upload",
      "/reminders/1/complete", "/reminders?from=/resumes" }

Methods == {"get", "post", "put", "delete"}

InitGateway ==
    /\ peer = TabAtBoot
    /\ view = NoView
    /\ MOCK_USERS = SeedUsers
    /\ localStorage = StoreSession(NoItems, MakeToken(1), PublicFields(SeedUsers[1]))
    /\ defaults = SetItem(NoItems, "Authorization", Bearer(MakeToken(1)))
    /\ user = PublicFields(SeedUsers[1])
    /\ loading = FALSE
    /\ phase = "ready"
    /\ now = 1
    /\ inflight = {}
    /\ navigateTo = ""
    /\ last = [op |-> "login", outcome |-> "resolved", email |-> SeedUsers[1].email,
               password |-> SeedUsers[1].password, error |-> ""]

NextGateway ==
    \/ \E url \in GatewayUrls, method \in Methods : Send(url, method)
    \/ \E req \in inflight : RespondOk(req)
    \/ \E req \in inflight, error \in Errors : RespondError(req, error)

SpecGateway == InitGateway /\ [][NextGateway]_vars

\* The application starts on storage that holds both session values or neither
\* Two tabs of the application on one browser profile: each has its own module
\* state and component state, localStorage is shared.  The user turns to the
\* other tab; the variables hold the state of the tab that has the focus.
SwitchTab ==
    /\ peer' = [MOCK_USERS |-> MOCK_USERS, defaults |-> defaults, user |-> user,
                loading |-> loading, phase |-> phase, inflight |-> inflight,
                navigateTo |-> navigateTo]
    /\ MOCK_USERS' = peer.MOCK_USERS
    /\ defaults' = peer.defaults
    /\ user' = peer.user
    /\ loading' = peer.loading
    /\ phase' = peer.phase
    /\ inflight' = peer.inflight
    /\ navigateTo' = peer.navigateTo
    /\ last' = [op |-> "switch", outcome |-> "switched"]
    /\ UNCHANGED <<localStorage, now, view>>

\* the accounts the two tabs sign in with
TabAccounts == {SeedUsers[1], SeedUsers[2]}

NextTabs ==
    \/ Restore
    \/ \E u \in TabAccounts : login(u.email, u.password)
    \/ logout
    \/ Tick
    \/ SwitchTab

SpecTabs == InitFresh /\ [][NextTabs]_vars

\* single-tab use of the session store, no request sent
NextSession ==
    \/ Restore
    \/ \E email \in Emails, password \in Passwords : login(email, password)
    \/ \E name \in Names, email \in Emails, password \in NewPasswords :
          register(name, email, password)
    \/ logout
    \/ Tick
    \/ PageLoad

InitPaired == Init /\ (HasItem(localStorage, "token") <=> HasItem(localStorage, "user"))

SpecPaired == InitPaired /\ [][Next]_vars

SpecSession == InitPaired /\ [][NextSession]_vars

----------------------------------------------------------------------------
(* Page components: pages/Applications.tsx, pages/Reminders.tsx, Resumes,   *)
(* Dashboard, Analytics.  A page holds its data and a loading flag; every   *)
(* handler that awaits a gateway call is a pending call that remembers the  *)
(* data of the render it was created in (the closure of the handler).       *)

MaxCalls == 2       \* gateway calls of the page pending at the same time
MaxRecords == 3     \* records a list page holds

ListPages == {"Applications", "Reminders", "Resumes"}
Pages == ListPages \cup {"Dashboard", "Analytics"}

\* the URL of the initial fetch of a page
PageRoute(component) ==
    CASE component = "Applications" -> "/applications"
      [] component = "Reminders" -> "/reminders"
      [] component = "Resumes" -> "/resumes"
      [] component = "Dashboard" -> "/dashboard/stats"
      [] component = "Analytics" -> "/analytics"

\* the fixture array behind a list page
FixtureOf(component) ==
    CASE component = "Applications" -> MOCK_DATA.applications
      [] component = "Reminders" -> MOCK_DATA.reminders
      [] component = "Resumes" -> MOCK_DATA.resumes

\* the initial value of the useState that holds the data of a page
InitialData(component) ==
    CASE component \in ListPages -> << >>
      [] component = "Dashboard" ->
            [totalApplications |-> 0, appliedCount |-> 0, interviewCount |-> 0,
             offerCount |-> 0, rejectedCount |-> 0, recentApplications |-> << >>,
             upcomingReminders |-> << >>]
      [] component = "Analytics" -> Null

\* a page after its first render: the mount effect has issued the fetch
Mounted(component) ==
    [component |-> component, data |-> InitialData(component), loading |-> TRUE,
     calls |-> {[op |-> "fetch", url |-> PageRoute(component), method |-> "get",
                 id |-> "", captured |-> InitialData(component)]}]

\* response.data of a reachable backend: it holds the sample records, answers
\* a create or upload with a new record and an edit with the changed record
Created(component) == [FixtureOf(component)[1] EXCEPT !.id = "9"]
Edited(component, id) == [FixtureOf(component)[2] EXCEPT !.id = id]
BackendData(call) ==
    CASE call.op = "fetch" -> MockPayload(call.url)
      [] call.op \in {"create", "upload"} -> Created(view.component)
      [] call.op = "edit" -> Edited(view.component, call.id)
      [] OTHER -> ""

AnswerMasksEveryMethod(call, error) ==
    IF error = NoError
    THEN [outcome |-> "resolved", data |-> BackendData(call)]
    ELSE IF IsNetworkError(error) /\ MockRouteAnyMethod(call.url, call.method) # 0
    THEN [outcome |-> "resolved",
          data |-> MockPayload(MockRoutes[MockRouteAnyMethod(call.url, call.method)])]
    ELSE [outcome |-> "rejected", data |-> ""]

\* what the response interceptor hands to the caller of the gateway
\* (api.ts 100-162): the response of the backend, a fixture, or a rejection
Answer(call, error) ==
    IF error = NoError
    THEN [outcome |-> "resolved", data |-> BackendData(call)]
    ELSE IF IsNetworkError(error) /\ MockRoute(call.url, call.method) # 0
    THEN [outcome |-> "resolved",
          data |-> MockPayload(MockRoutes[MockRoute(call.url, call.method)])]
    ELSE [outcome |-> "rejected", data |-> ""]

\* the argument of the setter the handler calls after its awaited call resolved
DataAfter(call, data) ==
    CASE call.op = "fetch" -> data
      [] call.op = "delete" ->
            SelectSeq(call.captured, LAMBDA r : r.id # call.id)
      [] call.op \in {"create", "upload"} -> <<data>> \o call.captured
      [] call.op = "edit" ->
            [i \in 1..Len(call.captured) |->
                LET r == call.captured[i] IN IF r.id = data.id THEN data ELSE r]
      [] call.op = "toggle" ->
            [i \in 1..Len(call.captured) |->
                LET r == call.captured[i] IN
                IF r.id = call.id
                THEN [r EXCEPT !.isCompleted = ~call.isCompleted]
                ELSE r]
      [] call.op = "default" ->
            [i \in 1..Len(call.captured) |->
                LET r == call.captured[i] IN
                [r EXCEPT !.isDefault = (r.id = call.id)]]
      [] call.op = "download" -> view.data

Ids(list) == {list[i].id : i \in 1..Len(list)}

\* a handler of the page starts a gateway call
StartCall(call) ==
    /\ Cardinality(view.calls) < MaxCalls
    /\ call \notin view.calls
    /\ view' = [view EXCEPT !.calls = @ \cup {call}]
    /\ last' = [op |-> "call", outcome |-> "sent", call |-> call]
    /\ UNCHANGED <<MOCK_USERS, localStorage, defaults, user, loading, phase, now,
                   inflight, navigateTo, peer>>

\* the collection segment of the URLs of a list page
ListUrl == PageRoute(view.component)

\* handleDeleteApplication / handleDeleteReminder / Resumes.handleDelete,
\* confirm() answered with OK
handleDelete(id) ==
    /\ view.component \in ListPages
    /\ id \in Ids(view.data)
    /\ StartCall([op |-> "delete", url |-> ListUrl \o "/" \o id, method |-> "delete",
                  id |-> id, captured |-> view.data])

\* onSubmit of ApplicationModal / ReminderModal for a new record
handleCreate ==
    /\ view.component \in {"Applications", "Reminders"}
    /\ Len(view.data) < MaxRecords
    /\ StartCall([op |-> "create", url |-> ListUrl, method |-> "post",
                  id |-> "", captured |-> view.data])

\* onSubmit of ApplicationModal / ReminderModal / ResumeModal for a record
\* that is being edited
handleEdit(id) ==
    /\ view.component \in ListPages
    /\ id \in Ids(view.data)
    /\ StartCall([op |-> "edit", url |-> ListUrl \o "/" \o id, method |-> "put",
                  id |-> id, captured |-> view.data])

\* Reminders.handleToggleComplete
handleToggleComplete(id) ==
    /\ view.component = "Reminders"
    /\ \E i \in 1..Len(view.data) :
          /\ view.data[i].id = id
          /\ StartCall([op |-> "toggle", url |-> ListUrl \o "/" \o id \o "/complete",
                        method |-> "put", id |-> id,
                        isCompleted |-> view.data[i].isCompleted,
                        captured |-> view.data])

\* Resumes.handleSetDefault
handleSetDefault(id) ==
    /\ view.component = "Resumes"
    /\ id \in Ids(view.data)
    /\ StartCall([op |-> "default", url |-> ListUrl \o "/" \o id \o "/default",
                  method |-> "put", id |-> id, captured |-> view.data])

\* Resumes.handleUpload
handleUpload ==
    /\ view.component = "Resumes"
    /\ Len(view.data) < MaxRecords
    /\ StartCall([op |-> "upload", url |-> ListUrl \o "/upload", method |-> "post",
                  id |-> "", captured |-> view.data])

\* Resumes.handleDownload
handleDownload(id) ==
    /\ view.component = "Resumes"
    /\ id \in Ids(view.data)
    /\ StartCall([op |-> "download", url |-> ListUrl \o "/" \o id \o "/download",
                  method |-> "get", id |-> id, captured |-> view.data])

SettleKeepsLoading(call, error) ==
    /\ call \in view.calls
    /\ LET answer == Answer(call, error) IN
       /\ view' = [view EXCEPT
                     !.calls = @ \ {call},
                     !.data = IF answer.outcome = "resolved"
                              THEN DataAfter(call, answer.data) ELSE @,
                     !.loading = IF call.op = "fetch" /\ answer.outcome = "resolved"
                                 THEN FALSE ELSE @]
       /\ last' = [op |-> "settle", outcome |-> answer.outcome, call |-> call,
                   error |-> error]
       /\ IF answer.outcome = "rejected" /\ IsUnauthorized(error)
          THEN /\ localStorage' = ClearSession(localStorage)
               /\ navigateTo' = "/login"
          ELSE UNCHANGED <<localStorage, navigateTo>>
    /\ UNCHANGED <<MOCK_USERS, defaults, user, loading, phase, now, inflight, peer>>

\* The awaited gateway call of a handler settles: the response interceptor
\* runs, then the rest of the handler (try / catch / finally)
Settle(call, error) ==
    /\ call \in view.calls
    /\ LET answer == Answer(call, error) IN
       /\ view' = [view EXCEPT
                     !.calls = @ \ {call},
                     !.data = IF answer.outcome = "resolved"
                              THEN DataAfter(call, answer.data) ELSE @,
                     !.loading = IF call.op = "fetch" THEN FALSE ELSE @]
       /\ last' = [op |-> "settle", outcome |-> answer.outcome, call |-> call,
                   error |-> error]
       /\ IF answer.outcome = "rejected" /\ IsUnauthorized(error)
          THEN /\ localStorage' = ClearSession(localStorage)
               /\ navigateTo' = "/login"
          ELSE UNCHANGED <<localStorage, navigateTo>>
    /\ UNCHANGED <<MOCK_USERS, defaults, user, loading, phase, now, inflight, peer>>

\* a signed-in session, as InitGateway, with a list page mounted
InitViews ==
    /\ peer = TabAtBoot
    /\ view \in {Mounted(c) : c \in ListPages}
    /\ MOCK_USERS = SeedUsers
    /\ localStorage = StoreSession(NoItems, MakeToken(1), PublicFields(SeedUsers[1]))
    /\ defaults = SetItem(NoItems, "Authorization", Bearer(MakeToken(1)))
    /\ user = PublicFields(SeedUsers[1])
    /\ loading = FALSE
    /\ phase = "ready"
    /\ now = 1
    /\ inflight = {}
    /\ navigateTo = ""
    /\ last = [op |-> "login", outcome |-> "resolved", email |-> SeedUsers[1].email,
               password |-> SeedUsers[1].password, error |-> ""]

RecordIds == {"1", "2", "3", "9"}

Handlers ==
    \/ \E id \in RecordIds : handleDelete(id)
    \/ handleCreate
    \/ \E id \in RecordIds : handleEdit(id)
    \/ \E id \in RecordIds : handleToggleComplete(id)
    \/ \E id \in RecordIds : handleSetDefault(id)
    \/ handleUpload
    \/ \E id \in RecordIds : handleDownload(id)

\* the backend is reachable and the user deletes records of the list: a call
\* is answered or fails with a server error
NextViews ==
    \/ \E id \in RecordIds : handleDelete(id)
    \/ \E call \in view.calls, error \in {NoError, [code |-> "ERR_BAD_RESPONSE", status |-> 500]} :
          Settle(call, error)

SpecViews == InitViews /\ [][NextViews]_vars

\* the backend is unreachable: every call fails with a connection-level error
NextOffline ==
    \/ Handlers
    \/ \E call \in view.calls, error \in {e \in Errors : IsNetworkError(e)} :
          Settle(call, error)

SpecOffline == InitViews /\ [][NextOffline]_vars

\* start-up: the session store restores while the mounted page fetches
InitLoading ==
    /\ peer = TabAtBoot
    /\ view \in {Mounted(c) : c \in Pages}
    /\ MOCK_USERS = SeedUsers
    /\ localStorage \in InitialStorage
    /\ defaults = NoItems
    /\ user = Null
    /\ loading = TRUE
    /\ phase = "boot"
    /\ now = 1
    /\ inflight = {}
    /\ navigateTo = ""
    /\ last = [op |-> "pageload", outcome |-> "loaded"]

NextLoading ==
    \/ Restore
    \/ \E call \in view.calls, error \in {NoError} \cup Errors : Settle(call, error)

SpecLoading == InitLoading /\ [][NextLoading]_vars /\ WF_vars(Restore)

----------------------------------------------------------------------------
(* Properties of the session store *)

\* some record of the table has this email and this password
InTable(table, email, password) ==
    \E i \in 1..Len(table) : table[i].email = email /\ table[i].password = password

\* some record of the table has this email
EmailInTable(table, email) == \E i \in 1..Len(table) : table[i].email = email

HeaderSet == "Authorization" \in DOMAIN defaults

\* C1: a login with an (email, password) pair of the user table succeeds from
\* any session state; afterwards the persisted token is non-empty, the current
\* user and the persisted user carry that email, and the default authorization
\* header is "Bearer " followed by the persisted token.
C1_LoginSucceeds ==
    (last.op = "login" /\ InTable(MOCK_USERS, last.email, last.password)) =>
        /\ last.outcome = "resolved"
        /\ HasItem(localStorage, "token") /\ localStorage["token"] # ""
        /\ user # Null /\ user.email = last.email
        /\ HasItem(localStorage, "user")
        /\ \E v \in JSONValues \ {Null} :
              JSONstringify(v) = localStorage["user"] /\ v.email = last.email
        /\ HeaderSet
        /\ defaults["Authorization"] = "Bearer " \o localStorage["token"]

\* a user added by register has logged in
C1_Witness ==
    /\ last.op = "login" /\ last.outcome = "resolved"
    /\ last.email \in NovelEmails
    /\ user # Null /\ user.email = last.email

\* C2: a login with a pair that matches no record of the user table is
\* rejected and leaves the current user, the persisted token and user, the
\* default authorization header and the user table as they were.
C2_FailedLoginChangesNothing ==
    [][(last'.op = "login" /\ ~InTable(MOCK_USERS, last'.email, last'.password)) =>
          /\ last'.outcome = "rejected"
          /\ UNCHANGED <<user, localStorage, defaults, MOCK_USERS>>]_vars

\* a wrong password for a known email was rejected while a session was open
C2_Witness ==
    /\ last.op = "login" /\ last.outcome = "rejected"
    /\ EmailInTable(MOCK_USERS, last.email)
    /\ user # Null /\ HasItem(localStorage, "token") /\ HeaderSet

\* C3: after logout there is no persisted token, no persisted user, no default
\* authorization header and no current user, whatever the state before.
C3_LogoutClearsAll ==
    last.op = "logout" =>
        /\ ~HasItem(localStorage, "token")
        /\ ~HasItem(localStorage, "user")
        /\ ~HeaderSet
        /\ user = Null

\* logout ran on storage that held only one of the two values
C3_Witness ==
    /\ last.op = "logout"
    /\ Cardinality(DOMAIN last.stored) = 1

C5_DuplicateRegisterChangesNothing ==
    [][(last'.op = "register" /\ EmailInTable(MOCK_USERS, last'.email)) =>
          /\ last'.outcome = "rejected"
          /\ UNCHANGED <<MOCK_USERS, user, localStorage, defaults>>]_vars

\* a second registration of an email that register itself had added was rejected
C5_Witness ==
    /\ last.op = "register" /\ last.outcome = "rejected"
    /\ last.email \in NovelEmails
    /\ Len(MOCK_USERS) = Len(SeedUsers) + 1

\* C6: register with an email that is not in the user table appends exactly
\* one verified record with that name, email and password, and leaves the
\* current user, the persisted token and user and the default authorization
\* header as they were.
C6_RegisterAppendsOne ==
    [][(last'.op = "register" /\ ~EmailInTable(MOCK_USERS, last'.email)) =>
          /\ last'.outcome = "resolved"
          /\ Len(MOCK_USERS') = Len(MOCK_USERS) + 1
          /\ SubSeq(MOCK_USERS', 1, Len(MOCK_USERS)) = MOCK_USERS
          /\ LET added == MOCK_USERS'[Len(MOCK_USERS')] IN
                /\ added.name = last'.name
                /\ added.email = last'.email
                /\ added.password = last'.password
                /\ added.isVerified = TRUE
          /\ UNCHANGED <<user, localStorage, defaults>>]_vars

\* a registration went through and no session exists
C6_Witness ==
    /\ last.op = "register" /\ last.outcome = "resolved"
    /\ Len(MOCK_USERS) = Len(SeedUsers) + 1
    /\ user = Null /\ ~HasItem(localStorage, "token") /\ ~HeaderSet

BothStored == Truthy(last.stored, "token") /\ Truthy(last.stored, "user")

\* C8 as stated: after restore the session is authenticated, with the header
\* "Bearer " plus the persisted token, exactly when both values were persisted
\* and the user value deserializes; otherwise the header is not set.
C8_Original ==
    last.op = "restore" =>
        /\ (user # Null /\ HeaderSet) <=>
               (BothStored /\ JSONparses(last.stored["user"]))
        /\ HeaderSet => defaults["Authorization"] = "Bearer " \o last.stored["token"]
        /\ ~BothStored => (user = Null /\ ~HeaderSet)

\* C8: after restore the default authorization header is set, to "Bearer "
\* plus the persisted token, exactly when both values were persisted non-empty
\* and the user value deserializes; the current user is then the deserialized
\* value, so the session is authenticated exactly when that value is not null.
\* In every other case the current user is null and the header is not set.
C8_RestoreAuthenticates ==
    last.op = "restore" =>
        /\ HeaderSet <=> (BothStored /\ JSONparses(last.stored["user"]))
        /\ HeaderSet => /\ defaults["Authorization"] = "Bearer " \o last.stored["token"]
                        /\ user = JSONparse(last.stored["user"])
        /\ ~HeaderSet => user = Null
        /\ ~BothStored => (user = Null /\ ~HeaderSet)

\* restore brought back a session that an earlier login had persisted
C8_Witness ==
    /\ last.op = "restore"
    /\ user # Null /\ HeaderSet
    /\ last.stored["token"] = MakeToken(now)

----------------------------------------------------------------------------
(* Properties of the request gateway *)

\* the last operation was the handling of a connection-level failure of
\* a GET request to this URL
NetworkFailureOfGet(url) ==
    /\ last.op = "response"
    /\ last.error.code \in {"ERR_NETWORK", "ECONNREFUSED"}
    /\ last.request.method = "get"
    /\ last.request.url = url

\* C9: a GET of the applications, resumes or reminders list that fails with a
\* connection-level error resolves with the static fixture array of that
\* endpoint: 3 applications, 2 resumes, 2 reminders, the same on every call.
C9_ListFixtures ==
    /\ NetworkFailureOfGet("/applications") =>
          /\ last.outcome = "resolved"
          /\ Len(last.response.data) = 3
          /\ last.response = [data |-> MOCK_DATA.applications]
    /\ NetworkFailureOfGet("/resumes") =>
          /\ last.outcome = "resolved"
          /\ Len(last.response.data) = 2
          /\ last.response = [data |-> MOCK_DATA.resumes]
    /\ NetworkFailureOfGet("/reminders") =>
          /\ last.outcome = "resolved"
          /\ Len(last.response.data) = 2
          /\ last.response = [data |-> MOCK_DATA.reminders]

\* the resumes list was served from the fixture after a refused connection
C9_Witness ==
    /\ NetworkFailureOfGet("/resumes")
    /\ last.error.code = "ECONNREFUSED"
    /\ last.outcome = "resolved"
    /\ last.response.data[1].filename = "resume-senior-dev.pdf"

\* C10: GET /dashboard/stats that fails with a connection-level error resolves
\* with totalApplications 3, appliedCount 1, interviewCount 1, offerCount 1,
\* rejectedCount 0, recentApplications the fixture applications in order and
\* upcomingReminders the fixture reminders in order.
C10_DashboardStats ==
    NetworkFailureOfGet("/dashboard/stats") =>
        /\ last.outcome = "resolved"
        /\ last.response.data.totalApplications = 3
        /\ last.response.data.appliedCount = 1
        /\ last.response.data.interviewCount = 1
        /\ last.response.data.offerCount = 1
        /\ last.response.data.rejectedCount = 0
        /\ last.response.data.recentApplications = MOCK_DATA.applications
        /\ last.response.data.upcomingReminders = MOCK_DATA.reminders
        /\ last.response.data.appliedCount + last.response.data.interviewCount
             + last.response.data.offerCount + last.response.data.rejectedCount
             = Len(MOCK_DATA.applications)

\* the stats were derived from the fixtures after a network error
C10_Witness ==
    /\ NetworkFailureOfGet("/dashboard/stats")
    /\ last.outcome = "resolved"
    /\ last.response.data.totalApplications = 3
    /\ Len(last.response.data.upcomingReminders) = 2

\* C11 as stated: a request carries "Bearer " plus the persisted token when a
\* token is in storage at the moment it is sent, and no authorization
\* credential at all when no token is in storage.
C11_Original ==
    last.op = "send" =>
        IF Truthy(localStorage, "token")
        THEN /\ "Authorization" \in DOMAIN last.request.headers
             /\ last.request.headers["Authorization"] = "Bearer " \o localStorage["token"]
        ELSE "Authorization" \notin DOMAIN last.request.headers

\* the authentication status the views see
AuthStatus ==
    IF phase = "boot" THEN "starting"
    ELSE IF user = Null THEN "unauthenticated" ELSE "authenticated"

\* the session in storage is one that the start-up effect restores
SessionPersisted ==
    /\ Truthy(localStorage, "token") /\ Truthy(localStorage, "user")
    /\ JSONparses(localStorage["user"])
    /\ JSONparse(localStorage["user"]) # Null

\* C12: the authentication status changes only along the state machine:
\* to authenticated by a successful login or by the start-up restore, from
\* authenticated to unauthenticated by logout or after a received 401 (whose
\* page load leaves no session to restore); register, a failed login,
\* successful responses and failures other than a 401 leave it as it is.
C12_StateMachine ==
    [][/\ (AuthStatus = "unauthenticated" /\ AuthStatus' = "authenticated") =>
             (last'.op = "login" /\ last'.outcome = "resolved")
       /\ (AuthStatus = "starting" /\ AuthStatus' # "starting") =>
             last'.op = "restore"
       /\ (AuthStatus = "authenticated" /\ AuthStatus' = "unauthenticated") =>
             (last'.op = "logout"
                \/ (last'.op = "response" /\ last'.error.status = 401))
       /\ (AuthStatus # "starting" /\ AuthStatus' = "starting") =>
             last'.op = "pageload"
       /\ (AuthStatus = "authenticated" /\ last'.op = "pageload"
             /\ ~SessionPersisted) => navigateTo = "/login"
       /\ (last'.op = "restore" /\ SessionPersisted) =>
             AuthStatus' = "authenticated"
       /\ (\/ last'.op \in {"register", "send", "tick"}
           \/ (last'.op = "login" /\ last'.outcome = "rejected")
           \/ (last'.op = "response" /\ last'.error.status # 401)) =>
             AuthStatus' = AuthStatus]_vars

\* a failure other than a 401 was handled and the session is still open
C12_Witness ==
    /\ last.op = "response" /\ last.error.status = 500
    /\ AuthStatus = "authenticated"

\* C13 as stated: handling a 401 leaves the session store as logout leaves
\* it (no persisted token, no persisted user, no default authorization header,
\* no current user) and forces the navigation to the login view.
C13_Original ==
    (last.op = "response" /\ last.error.status = 401) =>
        /\ ~HasItem(localStorage, "token")
        /\ ~HasItem(localStorage, "user")
        /\ ~HeaderSet
        /\ user = Null
        /\ navigateTo = "/login"

\* the last operation was the handling of a connection-level failure
NetworkFailure ==
    /\ last.op = "response"
    /\ last.error.code \in {"ERR_NETWORK", "ECONNREFUSED"}

\* the URL of the failed request contains one of the five fixture routes
HasFixtureFragment(url) ==
    \E f \in {"/applications", "/resumes", "/reminders", "/dashboard/stats",
              "/analytics"} : Includes(url, f)

\* C14 as stated: every call that fails with a connection-level error
\* resolves, whatever its method.
C14_Original == NetworkFailure => last.outcome = "resolved"

\* C14: a call that fails with a connection-level error is masked only when
\* it is a GET whose URL contains a fixture route; every POST, PUT and DELETE
\* is rejected with the error and without a response.
C14_OnlyGetIsMasked ==
    NetworkFailure =>
        /\ last.request.method # "get" =>
              (last.outcome = "rejected" /\ last.response = Null)
        /\ last.outcome = "resolved" <=>
              (last.request.method = "get" /\ HasFixtureFragment(last.request.url))

\* creating an application failed with a network error and was rejected
C14_Witness ==
    /\ NetworkFailure
    /\ last.request.method = "post" /\ last.request.url = "/applications"
    /\ last.outcome = "rejected"

\* the URL without its query string
PathOf(url) ==
    LET marks == {i \in 1..Len(url) : SubSeq(url, i, i) = "?"}
    IN IF marks = {} THEN url
       ELSE SubSeq(url, 1, (CHOOSE i \in marks : \A j \in marks : i <= j) - 1)

\* C15 as stated: on a connection-level failure a fixture is substituted only
\* for GET /applications, /resumes, /reminders, /dashboard/stats and
\* /analytics; every other route or method is rejected.
C15_Original ==
    NetworkFailure =>
        (last.outcome = "resolved" <=>
            /\ last.request.method = "get"
            /\ PathOf(last.request.url) \in
                  {"/applications", "/resumes", "/reminders", "/dashboard/stats",
                   "/analytics"})

RouteOrder ==
    << "/applications", "/resumes", "/reminders", "/dashboard/stats", "/analytics" >>

\* the routes, in the order of the interceptor, that the URL contains
RoutesIn(url) == {i \in 1..Len(RouteOrder) : Includes(url, RouteOrder[i])}

\* C18: on a connection-level failure of a GET the payload is decided by the
\* first of /applications, /resumes, /reminders, /dashboard/stats, /analytics
\* that the URL contains, so every GET URL that contains "/applications"
\* resolves with the whole applications fixture; other methods get no fixture.
C18_FirstFragmentDecides ==
    NetworkFailure =>
        LET url == last.request.url
            hits == RoutesIn(url)
        IN  /\ (last.request.method = "get" /\ hits # {}) =>
                  /\ last.outcome = "resolved"
                  /\ \A i \in hits :
                        (\A j \in hits : i <= j) =>
                           CASE i = 1 -> last.response.data = MOCK_DATA.applications
                             [] i = 2 -> last.response.data = MOCK_DATA.resumes
                             [] i = 3 -> last.response.data = MOCK_DATA.reminders
                             [] i = 4 -> last.response.data.totalApplications = 3
                             [] i = 5 -> last.response.data.successRate = 33
            /\ last.request.method # "get" => last.outcome = "rejected"

\* the application list with a query string was served from the fixture
C18_Witness ==
    /\ NetworkFailure
    /\ last.request.method = "get"
    /\ last.request.url = "/applications?fields=id,company,position"
    /\ last.outcome = "resolved"
    /\ Len(last.response.data) = 3

\* every password a user record can have
AllPasswords ==
    {SeedUsers[i].password : i \in 1..Len(SeedUsers)} \cup NewPasswords \cup Passwords

\* C16: no password is ever in persisted storage: the persisted user value
\* written by login is the text of the identifier, email, display name and
\* verification flag of the matched record and nothing else, and neither the
\* persisted user nor the persisted token contains a password.
C16_NoPasswordPersisted ==
    /\ \A k \in DOMAIN localStorage :
          \A p \in AllPasswords : ~Includes(localStorage[k], p)
    /\ (last.op = "login" /\ last.outcome = "resolved") =>
          \E i \in 1..Len(MOCK_USERS) :
              /\ MOCK_USERS[i].email = last.email
              /\ localStorage["user"] =
                    "{\"id\":\"" \o MOCK_USERS[i].id
                    \o "\",\"email\":\"" \o MOCK_USERS[i].email
                    \o "\",\"name\":\"" \o MOCK_USERS[i].name
                    \o "\",\"isVerified\":true}"

\* a registered user logged in with the password given at registration
C16_Witness ==
    /\ last.op = "login" /\ last.outcome = "resolved"
    /\ last.password \in NewPasswords
    /\ HasItem(localStorage, "user")
    /\ Includes(localStorage["user"], last.email)
    /\ Includes(localStorage["token"], "mock-jwt-token-")

\* C17: a successful response passes through the inbound interceptor
\* unchanged, and a failure that is neither a connection-level error nor a 401
\* is rejected to the caller with the original error; in both cases the
\* persisted token, the persisted user, the default authorization header and
\* the current user stay as they were and no navigation is forced.
C17_PassThroughFrame ==
    [][(last'.op = "response") =>
          /\ (last'.error = NoError) =>
                /\ last'.outcome = "resolved"
                /\ last'.response = BackendResponse
                /\ UNCHANGED <<localStorage, defaults, user, navigateTo>>
          /\ (/\ last'.error # NoError
              /\ last'.error.code \notin {"ERR_NETWORK", "ECONNREFUSED"}
              /\ last'.error.status # 401) =>
                /\ last'.outcome = "rejected"
                /\ last'.response = Null
                /\ last'.error \in Errors
                /\ UNCHANGED <<localStorage, defaults, user, navigateTo>>]_vars

\* a server error was passed to the caller while a session was open and stored
C17_Witness ==
    /\ last.op = "response" /\ last.outcome = "rejected"
    /\ last.error.code = "ERR_BAD_RESPONSE"
    /\ Truthy(localStorage, "token") /\ Truthy(localStorage, "user")
    /\ HeaderSet /\ user # Null /\ navigateTo = ""

\* C19: on a 401 response the inbound interceptor clears the persisted
\* session, forces navigation to the login view and still rejects the call
\* with the original error, so the calling view runs its failure handling.
C19_UnauthorizedRedirectsAndRejects ==
    (last.op = "response" /\ last.error.status = 401) =>
        /\ ~HasItem(localStorage, "token")
        /\ ~HasItem(localStorage, "user")
        /\ navigateTo = "/login"
        /\ last.outcome = "rejected"
        /\ last.response = Null
        /\ last.error = [code |-> "ERR_BAD_REQUEST", status |-> 401]

\* the profile update of an open session was answered 401
C19_Witness ==
    /\ last.op = "response" /\ last.error.status = 401
    /\ last.request.url = "/auth/profile" /\ last.request.method = "put"
    /\ "Authorization" \in DOMAIN last.request.headers
    /\ last.outcome = "rejected" /\ navigateTo = "/login"
    /\ localStorage = NoItems

\* C20: the persisted token and the persisted user are written together and
\* removed together: from storage that holds both or neither, restore, login,
\* register, logout and 401 handling never leave exactly one of the two.
C20_TokenAndUserTogether ==
    HasItem(localStorage, "token") <=> HasItem(localStorage, "user")

\* logout removed a stored pair
C20_Witness ==
    /\ last.op = "logout"
    /\ Cardinality(DOMAIN last.stored) = 2
    /\ localStorage = NoItems

\* C21: with two tabs on the same storage, login and logout race.  A login or
\* logout in one tab rewrites the shared storage and leaves the in-memory
\* session of the other tab as it was, so that tab stays authenticated, with
\* its own default header, after the token and user it was created with have
\* been removed or replaced.
C21_OtherTabKeepsItsSession ==
    [][(last'.op \in {"login", "logout"}) =>
          /\ peer' = peer
          /\ (last'.op = "logout") => ~HasItem(localStorage', "token")
          /\ (last'.op = "login" /\ last'.outcome = "resolved") =>
                Bearer(localStorage'["token"]) = defaults'["Authorization"]]_vars

\* one tab has logged out while the other is signed in: the other tab still
\* has its user and header, the storage they came from is empty
C21_Witness ==
    /\ last.op = "logout"
    /\ peer.phase = "ready" /\ peer.user # Null
    /\ "Authorization" \in DOMAIN peer.defaults
    /\ ~HasItem(localStorage, "token") /\ ~HasItem(localStorage, "user")

\* C22 as stated: in single-tab use without a 401, after start-up restore on
\* storage holding both values or neither, the current user is non-null exactly
\* when a token is persisted exactly when the default authorization header is
\* set, the header is "Bearer " plus the persisted token, and the persisted
\* user is the current user.
C22_Original ==
    (phase = "ready") =>
        /\ (user # Null) <=> HasItem(localStorage, "token")
        /\ HasItem(localStorage, "token") <=> HeaderSet
        /\ HeaderSet => defaults["Authorization"] = "Bearer " \o localStorage["token"]
        /\ (user # Null) =>
              /\ HasItem(localStorage, "user")
              /\ JSONparses(localStorage["user"])
              /\ JSONparse(localStorage["user"]) = user

\* C22: in single-tab use without a 401, after start-up restore on storage
\* holding both values or neither, the default authorization header is set
\* exactly when a non-empty token and a non-empty user text are persisted, and
\* is then "Bearer " plus that token; the current user is non-null exactly when
\* the header is set and the persisted user text is not "null", and is then
\* the value the persisted user text deserializes to.
C22_CopiesAgree ==
    (phase = "ready") =>
        /\ HeaderSet <=> (Truthy(localStorage, "token") /\ Truthy(localStorage, "user"))
        /\ HeaderSet => defaults["Authorization"] = "Bearer " \o localStorage["token"]
        /\ (user # Null) <=> (HeaderSet /\ localStorage["user"] # "null")
        /\ (user # Null) =>
              /\ JSONparses(localStorage["user"])
              /\ JSONparse(localStorage["user"]) = user

\* a register call made while signed in left the three copies in agreement
C22_Witness ==
    /\ last.op = "register" /\ last.outcome = "resolved"
    /\ phase = "ready" /\ user # Null /\ HeaderSet
    /\ JSONparse(localStorage["user"]) = user

\* C23 as stated: a 401 response to a request that was sent under an earlier
\* session (its credential is not the persisted token: the user has logged out
\* and logged in again while it was in flight) does not remove the persisted
\* token and user of the newer session.
C23_Original ==
    [][(/\ last'.op = "response" /\ last'.error.status = 401
        /\ user # Null
        /\ Truthy(localStorage, "token") /\ Truthy(localStorage, "user")
        /\ "Authorization" \in DOMAIN last'.request.headers
        /\ last'.request.headers["Authorization"] # Bearer(localStorage["token"])) =>
          UNCHANGED localStorage]_vars

\* C25: after any sequence of successful and failed register calls no two
\* records of the user table share an email and no two share an identifier;
\* the table never shrinks (every step of a page's life keeps the records it
\* had, in place) and the three pre-seeded records are never altered.
C25_UserTableGrowsUnique ==
    [][/\ \A i, j \in 1..Len(MOCK_USERS') :
             (i # j) => /\ MOCK_USERS'[i].email # MOCK_USERS'[j].email
                        /\ MOCK_USERS'[i].id # MOCK_USERS'[j].id
       /\ (last'.op # "pageload") =>
             /\ Len(MOCK_USERS') >= Len(MOCK_USERS)
             /\ SubSeq(MOCK_USERS', 1, Len(MOCK_USERS)) = MOCK_USERS
       /\ Len(MOCK_USERS') >= Len(SeedUsers)
       /\ SubSeq(MOCK_USERS', 1, Len(SeedUsers)) = SeedUsers]_vars

\* a register call was rejected after an earlier one had added a record
C25_Witness ==
    /\ last.op = "register" /\ last.outcome = "rejected"
    /\ Len(MOCK_USERS) = Len(SeedUsers) + 1
    /\ MOCK_USERS[Len(MOCK_USERS)].email = last.email

----------------------------------------------------------------------------
(* Resume upload dialog: components/ResumeModal.tsx, opened by the Resumes  *)
(* page for a new resume (resume prop null).                                *)

\* the session of the signed-in demo user, in which the pages below are used
InitSignedIn ==
    /\ peer = TabAtBoot
    /\ MOCK_USERS = SeedUsers
    /\ localStorage = StoreSession(NoItems, MakeToken(1), PublicFields(SeedUsers[1]))
    /\ defaults = SetItem(NoItems, "Authorization", Bearer(MakeToken(1)))
    /\ user = PublicFields(SeedUsers[1])
    /\ loading = FALSE
    /\ phase = "ready"
    /\ now = 1
    /\ inflight = {}
    /\ navigateTo = ""
    /\ last = [op |-> "login", outcome |-> "resolved", email |-> SeedUsers[1].email,
               password |-> SeedUsers[1].password, error |-> ""]

\* ResumeModal.tsx 89-94
allowedTypes ==
    { "application/pdf", "application/msword",
      "application/vnd.openxmlformats-officedocument.wordprocessingml.document" }
maxSize == 10 * 1024 * 1024

\* the files the user can pick or drop
FileTypes == allowedTypes \cup {"image/png", ""}
FileSizes == {0, maxSize - 1, maxSize, maxSize + 1}
Files == [type : FileTypes, size : FileSizes]

\* ResumeModal.tsx 88-107
validateFile(file) ==
    IF file.type \notin allowedTypes THEN FALSE
    ELSE IF file.size > maxSize THEN FALSE
    ELSE TRUE

\* the dialog is not shown (Resumes: showModal false)
ClosedDialog(uploaded) ==
    [component |-> "ResumeModal", showModal |-> FALSE, selectedFile |-> Null,
     uploaded |-> uploaded]

\* Resumes: setShowModal(true); the dialog mounts with no selected file
openModal ==
    /\ ~view.showModal
    /\ view' = [view EXCEPT !.showModal = TRUE, !.selectedFile = Null]
    /\ last' = [op |-> "open", outcome |-> "shown"]
    /\ UNCHANGED <<MOCK_USERS, localStorage, defaults, user, loading, phase, now,
                   inflight, navigateTo, peer>>

\* handleDrop (how = "drop") and handleFileSelect (how = "select")
handleFile(how, file) ==
    /\ view.showModal
    /\ IF validateFile(file)
       THEN /\ view' = [view EXCEPT !.selectedFile = file]
            /\ last' = [op |-> how, outcome |-> "accepted", file |-> file]
       ELSE /\ view' = view
            /\ last' = [op |-> how, outcome |-> "rejected", file |-> file]
    /\ UNCHANGED <<MOCK_USERS, localStorage, defaults, user, loading, phase, now,
                   inflight, navigateTo, peer>>

\* onSubmit with isEditing false: without a file it returns before the
\* upload; with a file it awaits onUpload, which handles its own failure, and
\* then calls onClose
onSubmit ==
    /\ view.showModal
    /\ IF view.selectedFile = Null
       THEN /\ view' = view
            /\ last' = [op |-> "submit", outcome |-> "no file"]
       ELSE /\ view' = ClosedDialog(view.selectedFile)
            /\ last' = [op |-> "submit", outcome |-> "uploaded"]
    /\ UNCHANGED <<MOCK_USERS, localStorage, defaults, user, loading, phase, now,
                   inflight, navigateTo, peer>>

InitUpload == InitSignedIn /\ view = ClosedDialog(Null)

NextUpload ==
    \/ openModal
    \/ \E how \in {"drop", "select"}, file \in Files : handleFile(how, file)
    \/ onSubmit

SpecUpload == InitUpload /\ [][NextUpload]_vars

----------------------------------------------------------------------------
(* Search and status filter of pages/Applications.tsx *)

\* String.prototype.toLowerCase, letter by letter
LowerChar(c) ==
    CASE c = "A" -> "a" [] c = "B" -> "b" [] c = "C" -> "c" [] c = "D" -> "d"
      [] c = "E" -> "e" [] c = "F" -> "f" [] c = "G" -> "g" [] c = "H" -> "h"
      [] c = "I" -> "i" [] c = "J" -> "j" [] c = "K" -> "k" [] c = "L" -> "l"
      [] c = "M" -> "m" [] c = "N" -> "n" [] c = "O" -> "o" [] c = "P" -> "p"
      [] c = "Q" -> "q" [] c = "R" -> "r" [] c = "S" -> "s" [] c = "T" -> "t"
      [] c = "U" -> "u" [] c = "V" -> "v" [] c = "W" -> "w" [] c = "X" -> "x"
      [] c = "Y" -> "y" [] c = "Z" -> "z" [] OTHER -> c

RECURSIVE LowerCase(_)
LowerCase(text) ==
    IF text = "" THEN ""
    ELSE LowerChar(SubSeq(text, 1, 1)) \o LowerCase(SubSeq(text, 2, Len(text)))

\* Applications.tsx 126
statuses == <<"all", "applied", "phone screen", "interview", "offer", "rejected">>

\* what the user types into the search box
SearchTerms == {"", "APPLE", "developer", "wa", "Linkedin", "zzz"}

\* the applications a page can hold: the fixtures and a record without the
\* optional location and notes, whose status the backend wrote capitalised
ApplicationPool ==
    MOCK_DATA.applications \o
    << [id |-> "4", company |-> "Apple Music", position |-> "QA Engineer",
        status |-> "Applied", appliedDate |-> "2024-01-02"] >>

\* the k-th smallest element of a set of numbers
Kth(S, k) == CHOOSE i \in S : Cardinality({j \in S : j < i}) = k - 1

ApplicationLists ==
    { [k \in 1..Cardinality(S) |-> ApplicationPool[Kth(S, k)]] :
         S \in SUBSET (1..Len(ApplicationPool)) }

\* app.location?.toLowerCase().includes(...): undefined when the field is missing
FieldIncludes(app, field, term) ==
    IF field \in DOMAIN app THEN Includes(LowerCase(app[field]), term) ELSE FALSE

matchesSearchAsTyped(app, searchTerm) ==
    \/ FieldIncludes(app, "company", searchTerm)
    \/ FieldIncludes(app, "position", searchTerm)
    \/ FieldIncludes(app, "location", searchTerm)
    \/ FieldIncludes(app, "notes", searchTerm)

\* Applications.tsx 98-102
matchesSearch(app, searchTerm) ==
    \/ FieldIncludes(app, "company", LowerCase(searchTerm))
    \/ FieldIncludes(app, "position", LowerCase(searchTerm))
    \/ FieldIncludes(app, "location", LowerCase(searchTerm))
    \/ FieldIncludes(app, "notes", LowerCase(searchTerm))

\* Applications.tsx 104
matchesStatus(app, statusFilter) ==
    statusFilter = "all" \/ LowerCase(app.status) = LowerCase(statusFilter)

\* Applications.tsx 97-107
filteredApplications(applications, searchTerm, statusFilter) ==
    SelectSeq(applications,
              LAMBDA app : matchesSearch(app, searchTerm) /\ matchesStatus(app, statusFilter))

\* the page once its list is loaded, as rendered
FilterView(applications, searchTerm, statusFilter) ==
    [component |-> "Applications", data |-> applications,
     searchTerm |-> searchTerm, statusFilter |-> statusFilter,
     filtered |-> filteredApplications(applications, searchTerm, statusFilter)]

\* onChange of the search box
setSearchTerm(term) ==
    /\ term # view.searchTerm
    /\ view' = FilterView(view.data, term, view.statusFilter)
    /\ last' = [op |-> "search", outcome |-> "rendered"]
    /\ UNCHANGED <<MOCK_USERS, localStorage, defaults, user, loading, phase, now,
                   inflight, navigateTo, peer>>

\* onChange of the status select
setStatusFilter(status) ==
    /\ status # view.statusFilter
    /\ view' = FilterView(view.data, view.searchTerm, status)
    /\ last' = [op |-> "status", outcome |-> "rendered"]
    /\ UNCHANGED <<MOCK_USERS, localStorage, defaults, user, loading, phase, now,
                   inflight, navigateTo, peer>>

InitFilter ==
    /\ InitSignedIn
    /\ view \in {FilterView(applications, "", "all") : applications \in ApplicationLists}

NextFilter ==
    \/ \E term \in SearchTerms : setSearchTerm(term)
    \/ \E i \in 1..Len(statuses) : setStatusFilter(statuses[i])

SpecFilter == InitFilter /\ [][NextFilter]_vars

----------------------------------------------------------------------------
(* Reminder groups of pages/Reminders.tsx.  An instant is a number of       *)
(* minutes; NaN is the time value of an invalid Date.                       *)

MaxReminders == 2   \* reminders in the list

NaN == -1
MinutesPerDay == 24 * 60

\* the days and times of day the date and time fields take
Calendar ==
    << "2024-01-20", "2024-01-21", "2024-01-22", "2024-01-23", "2024-01-24",
       "2024-01-25" >>
TimesOfDay == {"00:00", "10:00", "14:00"}

\* hours and minutes of an "HH:MM" text of TimesOfDay
MinuteOfDay(time) ==
    CASE time = "00:00" -> 0
      [] time = "10:00" -> 10 * 60
      [] time = "14:00" -> 14 * 60

\* new Date(`${date}T${time}`).getTime(), in minutes since the first day of
\* Calendar; NaN when the text is not a date-time
DateTime(date, time) ==
    IF (\E d \in 1..Len(Calendar) : Calendar[d] = date) /\ time \in TimesOfDay
    THEN (CHOOSE d \in 1..Len(Calendar) : Calendar[d] = date) * MinutesPerDay
         + MinuteOfDay(time)
    ELSE NaN

\* date-fns isBefore / isAfter / addDays; a comparison with NaN is false
isBefore(a, b) == a # NaN /\ b # NaN /\ a < b
isAfter(a, b) == a # NaN /\ b # NaN /\ a > b
addDays(instant, days) == IF instant = NaN THEN NaN ELSE instant + days * MinutesPerDay

\* new Date(): the current time of the render
Clock == DateTime("2024-01-20", "10:00")

\* Reminders.tsx 126-129
isPastDue(date, time) == isBefore(DateTime(date, time), Clock)

isUpcomingInclusive(date, time) ==
    /\ isAfter(DateTime(date, time), Clock)
    /\ ~isAfter(DateTime(date, time), addDays(Clock, 3))

\* Reminders.tsx 131-135
isUpcoming(date, time) ==
    /\ isAfter(DateTime(date, time), Clock)
    /\ isBefore(DateTime(date, time), addDays(Clock, 3))

\* Reminders.tsx 137-146 and the empty state of 340-363
ReminderGroups(reminders) ==
    [upcomingReminders |->
        SelectSeq(reminders, LAMBDA r : ~r.isCompleted /\ isUpcoming(r.date, r.time)),
     pastDueReminders |->
        SelectSeq(reminders, LAMBDA r : ~r.isCompleted /\ isPastDue(r.date, r.time)),
     completedReminders |-> SelectSeq(reminders, LAMBDA r : r.isCompleted),
     otherReminders |->
        SelectSeq(reminders, LAMBDA r : /\ ~r.isCompleted
                                        /\ ~isPastDue(r.date, r.time)
                                        /\ ~isUpcoming(r.date, r.time)),
     emptyState |-> (Len(reminders) = 0)]

\* the reminders a page can hold: around now, around now plus three days, and
\* with a date the form left empty
ReminderDates == {"2024-01-20", "2024-01-23", ""}
ReminderLists ==
    UNION { [1..n -> [date : ReminderDates, time : TimesOfDay, isCompleted : BOOLEAN]] :
               n \in 0..MaxReminders }

\* the list as the page holds it: every reminder has its own id
WithIds(list) ==
    [i \in 1..Len(list) |->
        [id |-> ToString(i), date |-> list[i].date, time |-> list[i].time,
         isCompleted |-> list[i].isCompleted]]

\* the page after its fetch, as rendered
RemindersView(reminders) ==
    [component |-> "Reminders", data |-> reminders, loading |-> FALSE,
     groups |-> ReminderGroups(reminders)]

\* handleToggleComplete whose request succeeded, then the page renders again
toggleComplete(i) ==
    /\ i \in 1..Len(view.data)
    /\ view' = RemindersView([view.data EXCEPT ![i].isCompleted = ~@])
    /\ last' = [op |-> "toggle", outcome |-> "rendered", id |-> view.data[i].id]
    /\ UNCHANGED <<MOCK_USERS, localStorage, defaults, user, loading, phase, now,
                   inflight, navigateTo, peer>>

InitGroups ==
    /\ InitSignedIn
    /\ view \in {RemindersView(WithIds(list)) : list \in ReminderLists}

NextGroups == \E i \in 1..MaxReminders : toggleComplete(i)

SpecGroups == InitGroups /\ [][NextGroups]_vars

----------------------------------------------------------------------------
(* Properties of the page components *)

\* C24 as stated: when two delete requests for two distinct records are in
\* flight at the same time and both succeed, neither record is in the
\* displayed list afterwards: a delete response removes its record and does
\* not bring back a record that was no longer displayed.
C24_Original ==
    [][(/\ last'.op = "settle" /\ last'.outcome = "resolved"
        /\ last'.call.op = "delete") =>
          Ids(view'.data) \subseteq (Ids(view.data) \ {last'.call.id})]_vars

\* C26: while the backend is unreachable, after the initial fetch no create,
\* edit, delete, toggle-complete, set-default or upload changes the list a
\* page holds: it stays equal to its fixture array, because every non-GET
\* request is rejected to the caller.
C26_OfflineListIsFixture ==
    /\ view.data = IF view.loading THEN << >> ELSE FixtureOf(view.component)
    /\ (last.op = "settle" /\ last.call.method # "get") => last.outcome = "rejected"
    /\ (last.op = "settle" /\ last.call.method = "get") => last.outcome = "resolved"

\* a delete was rejected while the backend was unreachable, the three sample
\* applications are still displayed
C26_Witness ==
    /\ last.op = "settle" /\ last.call.op = "delete" /\ last.outcome = "rejected"
    /\ view.component = "Applications" /\ ~view.loading
    /\ Len(view.data) = 3

\* C28: the loading phase ends.  Start-up restore sets the loading flag of the
\* session store to false in every branch, and the flag stays false; the
\* loading flag of a page is false once its initial fetch has settled, whether
\* it resolved or was rejected.
C28_LoadingEnds ==
    /\ [][/\ (last'.op = "restore") => (loading' = FALSE)
          /\ (last'.op = "settle" /\ last'.call.op = "fetch") =>
                (view'.loading = FALSE /\ view'.calls = {})]_vars
    /\ <>[](loading = FALSE)

\* the initial fetch of the dashboard was rejected after the session store had
\* cleared a malformed persisted user
C28_Witness ==
    /\ last.op = "settle" /\ last.call.op = "fetch" /\ last.outcome = "rejected"
    /\ view.component = "Dashboard" /\ view.loading = FALSE
    /\ loading = FALSE /\ localStorage = NoItems /\ navigateTo = ""

\* C29 as stated: the upload dialog accepts a selected or dropped file only if
\* its type is PDF, DOC or DOCX and its size is less than 10 * 1024 * 1024
\* bytes; a rejected file does not become the selected file, and submitting
\* without a selected file neither calls the upload nor closes the dialog.
C29_Original ==
    [][/\ (last'.op \in {"drop", "select"} /\ last'.outcome = "accepted") =>
             /\ last'.file.type \in
                   { "application/pdf", "application/msword",
                     "application/vnd.openxmlformats-officedocument.wordprocessingml.document" }
             /\ last'.file.size < 10 * 1024 * 1024
       /\ (last'.op \in {"drop", "select"} /\ last'.outcome = "rejected") =>
             view'.selectedFile = view.selectedFile
       /\ (last'.op = "submit" /\ view.selectedFile = Null) =>
             (view'.showModal /\ view'.uploaded = view.uploaded)]_vars

\* the term occurs in the text, ignoring case
ContainsIgnoreCase(text, term) ==
    \E i \in 1..(Len(text) - Len(term) + 1) :
        LowerCase(SubSeq(text, i, i + Len(term) - 1)) = LowerCase(term)

\* the application satisfies the search term and the status filter
SatisfiesFilters(app) ==
    /\ \E field \in {"company", "position", "location", "notes"} \cap DOMAIN app :
          ContainsIgnoreCase(app[field], view.searchTerm)
    /\ \/ view.statusFilter = "all"
       \/ LowerCase(app.status) = LowerCase(view.statusFilter)

\* C30: the filtered applications list is the order-preserving sub-list of
\* the applications that satisfy both filters (the search term occurs,
\* ignoring case, in company, position, location or notes; the status filter
\* is 'all' or equals the status ignoring case); with an empty search term and
\* status 'all' it is the full list.
C30_FilteredIsSublist ==
    LET keep == {i \in 1..Len(view.data) : SatisfiesFilters(view.data[i])} IN
    /\ Len(view.filtered) = Cardinality(keep)
    /\ \A k \in 1..Len(view.filtered) : view.filtered[k] = view.data[Kth(keep, k)]
    /\ (view.searchTerm = "" /\ view.statusFilter = "all") => view.filtered = view.data

\* an upper-case search term and a status filter select one application of four
C30_Witness ==
    /\ view.searchTerm = "APPLE" /\ view.statusFilter = "applied"
    /\ Len(view.data) = 4
    /\ Len(view.filtered) = 1 /\ view.filtered[1].id = "4"

\* the record is one of the cards of the group
InGroup(r, group) == \E k \in 1..Len(group) : group[k] = r

\* the group the claim gives a reminder, for the current time of the render
GroupOf(r) ==
    LET at == DateTime(r.date, r.time)  threeDays == Clock + 3 * 24 * 60 IN
    IF r.isCompleted THEN "completedReminders"
    ELSE IF at # NaN /\ at < Clock THEN "pastDueReminders"
    ELSE IF at # NaN /\ at > Clock /\ at < threeDays THEN "upcomingReminders"
    ELSE "otherReminders"

\* C27: for a fixed current time the loaded Reminders page puts every
\* reminder in exactly one of its four groups: Completed if isCompleted;
\* otherwise Past Due if its date-time is before now, Upcoming if it is after
\* now and before now plus 3 days, and the remaining group otherwise (equal to
\* now or to now plus 3 days included); the empty state is shown exactly when
\* there are no reminders.
C27_ExactlyOneGroup ==
    (view.loading = FALSE) =>
        /\ \A i \in 1..Len(view.data) :
              \A name \in {"completedReminders", "pastDueReminders",
                           "upcomingReminders", "otherReminders"} :
                  InGroup(view.data[i], view.groups[name]) <=> (name = GroupOf(view.data[i]))
        /\ Len(view.groups.completedReminders) + Len(view.groups.pastDueReminders)
              + Len(view.groups.upcomingReminders) + Len(view.groups.otherReminders)
           = Len(view.data)
        /\ view.groups.emptyState <=> (view.data = << >>)

\* a reminder due exactly three days from now is in the remaining group, next
\* to one that was just marked completed
C27_Witness ==
    /\ last.op = "toggle"
    /\ Len(view.data) = 2
    /\ Len(view.groups.completedReminders) = 1
    /\ Len(view.groups.otherReminders) = 1
    /\ view.groups.otherReminders[1].date = "2024-01-23"
    /\ view.groups.otherReminders[1].time = "10:00"

====
